---- MODULE Spec2Model ----
(***************************************************************************)
(* The measurement pipeline of ai_tailor.py: the one AITailorSystem        *)
(* object (tailor_system), its calibrate_system / extract_measurements /   *)
(* process_frame / save_measurements methods and the three Flask routes    *)
(* /calibrate, /measure and /save that drive it.                           *)
(*                                                                         *)
(* app.run() serves every request on its own thread, so each request is a  *)
(* thread slot with a program counter and the handlers are split at the    *)
(* points where the session object or the file system is read or written.  *)
(* The camera, the pose detector, the clock and the file system are the    *)
(* environment: their results are chosen with \E.                          *)
(*                                                                         *)
(* Numbers: centimetre values are kept in tenths (round(x, 1) * 10), the   *)
(* scale factor is an exact fraction <<num, den>>, normalised landmark     *)
(* coordinates are fractions <<num, den>> whose denominators divide the    *)
(* frame sizes of the model, so pixel coordinates are exact integers.      *)
(***************************************************************************)
EXTENDS Integers, Sequences, FiniteSets, TLC

----------------------------------------------------------------------------
(* Bounds of the model *)

\* total number of requests the server receives in one run
MaxRequests == 3

\* last value of the wall clock (seconds)
MaxClock == 1

----------------------------------------------------------------------------
(* Program constants *)

\* average_face_width_cm = 15.5, in tenths of a centimetre
AverageFaceWidthTenths == 155

\* face_width_pixels = w / 8
FaceFraction == 8

Threads == {"t1", "t2"}

\* user names a request can carry
UserNames == {"", "Guest"}

\* frames cap.read() can deliver: (w, h) of frame.shape
Frames == { [w |-> 0, h |-> 0], [w |-> 8, h |-> 8], [w |-> 16, h |-> 8] }

landmarks_dict ==
    [ nose |-> 0, left_shoulder |-> 11, right_shoulder |-> 12,
      left_elbow |-> 13, right_elbow |-> 14, left_wrist |-> 15,
      right_wrist |-> 16, left_hip |-> 23, right_hip |-> 24,
      left_knee |-> 25, right_knee |-> 26, left_ankle |-> 27,
      right_ankle |-> 28, left_ear |-> 7, right_ear |-> 8 ]

MeasurementNames ==
    { "Shoulder Width", "Left Arm Length", "Torso Length",
      "Inseam", "Hip Width", "Leg Length" }

----------------------------------------------------------------------------
(* Detector outputs: landmark index -> normalised (x, y) *)

Pt(xn, yn) == [x |-> <<xn, 8>>, y |-> <<yn, 8>>]

PoseA ==
    (11 :> Pt(5, 2)) @@ (12 :> Pt(3, 2)) @@ (15 :> Pt(5, 5)) @@
    (23 :> Pt(5, 4)) @@ (24 :> Pt(3, 4)) @@ (27 :> Pt(5, 7))

PoseB ==
    (11 :> Pt(5, 2)) @@ (12 :> Pt(2, 2)) @@ (15 :> Pt(6, 5)) @@
    (23 :> Pt(5, 4)) @@ (24 :> Pt(3, 4)) @@ (27 :> Pt(4, 7))

\* PoseA with landmark 24 (right_hip) not delivered
PoseNoRightHip == [i \in (DOMAIN PoseA) \ {24} |-> PoseA[i]]

Poses == {PoseA, PoseB, PoseNoRightHip}

----------------------------------------------------------------------------
(* Optional values: Python's None against a value *)

EmptyDict == [n \in {} |-> 0]

None == [some |-> FALSE, val |-> EmptyDict]

Some(v) == [some |-> TRUE, val |-> v]

----------------------------------------------------------------------------
(* Arithmetic *)

RECURSIVE GCD(_, _)
GCD(a, b) == IF b = 0 THEN a ELSE GCD(b, a % b)

Fraction(n, d) == LET g == GCD(n, d) IN <<n \div g, d \div g>>

ZeroRatio == <<0, 1>>

\* r + 1/2 > sqrt(a / b)
AboveSqrt(r, a, b) == 4 * a < (2 * r + 1) * (2 * r + 1) * b

RECURSIVE Grow(_, _, _)
Grow(hi, a, b) == IF AboveSqrt(hi, a, b) THEN hi ELSE Grow(2 * hi + 1, a, b)

RECURSIVE Bisect(_, _, _, _)
Bisect(lo, hi, a, b) ==
    \* AboveSqrt(hi) holds, AboveSqrt(lo - 1) does not
    IF lo = hi THEN hi
    ELSE LET mid == (lo + hi) \div 2
         IN  IF AboveSqrt(mid, a, b) THEN Bisect(lo, mid, a, b)
             ELSE Bisect(mid + 1, hi, a, b)

\* the integer nearest to sqrt(a / b)
NearestSqrt(a, b) == Bisect(0, Grow(0, a, b), a, b)

\* landmark.x * w : normalised coordinate c = <<num, den>> times a frame size
Pixel(c, dim) == (c[1] * dim) \div c[2]

\* calculate_distance, squared: (p1[0] - p2[0])**2 + (p1[1] - p2[1])**2
DistanceSquared(p1, p2) ==
    (p1[1] - p2[1]) * (p1[1] - p2[1]) + (p1[2] - p2[2]) * (p1[2] - p2[2])

\* round(calculate_distance(p1, p2) * ratio, 1), in tenths
RoundedCm(p1, p2, ratio) ==
    NearestSqrt(100 * DistanceSquared(p1, p2) * ratio[1] * ratio[1],
                ratio[2] * ratio[2])

----------------------------------------------------------------------------
(* extract_measurements *)

\* the six assignments of the try block, in order: the name written, the
\* landmark indices the statement reads first, and the two points measured
MeasurementSteps ==
    << [name |-> "Shoulder Width",
        reads |-> {landmarks_dict.left_shoulder, landmarks_dict.right_shoulder},
        a |-> landmarks_dict.left_shoulder, b |-> landmarks_dict.right_shoulder],
       [name |-> "Left Arm Length",
        reads |-> {landmarks_dict.left_shoulder, landmarks_dict.left_wrist},
        a |-> landmarks_dict.left_shoulder, b |-> landmarks_dict.left_wrist],
       [name |-> "Torso Length",
        reads |-> {landmarks_dict.left_hip},
        a |-> landmarks_dict.left_shoulder, b |-> landmarks_dict.left_hip],
       [name |-> "Inseam",
        reads |-> {landmarks_dict.left_ankle},
        a |-> landmarks_dict.left_hip, b |-> landmarks_dict.left_ankle],
       [name |-> "Hip Width",
        reads |-> {landmarks_dict.right_hip},
        a |-> landmarks_dict.left_hip, b |-> landmarks_dict.right_hip],
       [name |-> "Leg Length",
        reads |-> {},
        a |-> landmarks_dict.left_hip, b |-> landmarks_dict.left_ankle] >>

\* how many of the statements run before landmarks[...] raises
RECURSIVE StepsCompleted(_, _)
StepsCompleted(landmarks, k) ==
    IF k < Len(MeasurementSteps)
       /\ MeasurementSteps[k + 1].reads \subseteq DOMAIN landmarks
    THEN StepsCompleted(landmarks, k + 1)
    ELSE k

PixelPoint(landmarks, i, frame) ==
    << Pixel(landmarks[i].x, frame.w), Pixel(landmarks[i].y, frame.h) >>

\* the dict `measurements` after the first k statements
MeasurementsAfter(landmarks, frame, ratio, k) ==
    [ n \in { MeasurementSteps[j].name : j \in 1..k } |->
        LET j == CHOOSE i \in 1..k : MeasurementSteps[i].name = n
        IN  RoundedCm(PixelPoint(landmarks, MeasurementSteps[j].a, frame),
                      PixelPoint(landmarks, MeasurementSteps[j].b, frame),
                      ratio) ]

\* mutant: the except branch returns the dict built so far
extract_measurements_partial(landmarks, frame, ratio) ==
    IF ratio = ZeroRatio THEN None
    ELSE Some(MeasurementsAfter(landmarks, frame, ratio,
                                StepsCompleted(landmarks, 0)))

extract_measurements(landmarks, frame, ratio) ==
    IF ratio = ZeroRatio THEN None
    ELSE IF StepsCompleted(landmarks, 0) = Len(MeasurementSteps)
         THEN Some(MeasurementsAfter(landmarks, frame, ratio,
                                     Len(MeasurementSteps)))
         ELSE None

\* Python truth value of the measurements the route tests
Truthy(opt) == opt.some /\ DOMAIN opt.val # {}

\* measurement sets a /save request carries
SavePayloads ==
    { extract_measurements(PoseA, [w |-> 8, h |-> 8], <<31, 2>>).val,
      extract_measurements(PoseB, [w |-> 8, h |-> 8], <<31, 2>>).val }

----------------------------------------------------------------------------
(* State *)

VARIABLES
    pixel_to_cm_ratio,     \* tailor_system.pixel_to_cm_ratio, a fraction
    calibrated,            \* tailor_system.calibrated
    current_measurements,  \* tailor_system.current_measurements
    measurements_data,     \* tailor_system.measurements_data: user -> list
    files,                 \* measurements_<user>.json: user -> content
    clock,                 \* datetime.now(), in seconds
    pc,                    \* where each request thread stands
    req,                   \* each request's inputs and locals
    resp,                  \* each request's response
    started,               \* requests received so far
    saved,                 \* per user, the sets of the saves that returned
    failed                 \* users with a save that raised

vars == << pixel_to_cm_ratio, calibrated, current_measurements,
           measurements_data, files, clock, pc, req, resp, started,
           saved, failed >>

session == << pixel_to_cm_ratio, calibrated, current_measurements,
              measurements_data >>

EmptyData == [u \in {} |-> << >>]

\* the session as a request finds it
Snapshot ==
    [ ratio |-> pixel_to_cm_ratio, calibrated |-> calibrated,
      current |-> current_measurements, data |-> measurements_data ]

NoFrame == [w |-> 0, h |-> 0]

NoReq ==
    [ kind |-> "none", ret |-> FALSE, frame |-> NoFrame,
      user |-> "", payload |-> EmptyDict,
      timestamp |-> 0, landmarks |-> None, measurements |-> None,
      pre |-> [ ratio |-> ZeroRatio, calibrated |-> FALSE,
                current |-> None, data |-> EmptyData ] ]

NoResp == [status |-> "none", success |-> FALSE, measurements |-> None]

\* jsonify({'success': ...}) with or without 'measurements'
Json(success, measurements) ==
    [status |-> "json", success |-> success, measurements |-> measurements]

\* an exception no handler catches: the request ends in a server error
Raised == [status |-> "raised", success |-> FALSE, measurements |-> None]

\* a file's content: the records written, and whether the JSON text is whole
FileOf(records, complete) == [data |-> records, complete |-> complete]

Init ==
    /\ pixel_to_cm_ratio = ZeroRatio
    /\ calibrated = FALSE
    /\ current_measurements = None
    /\ measurements_data = EmptyData
    /\ files = [u \in {} |-> FileOf(<< >>, TRUE)]
    /\ clock = 0
    /\ pc = [t \in Threads |-> "idle"]
    /\ req = [t \in Threads |-> NoReq]
    /\ resp = [t \in Threads |-> NoResp]
    /\ started = 0
    /\ saved = [u \in UserNames |-> << >>]
    /\ failed = {}

\* a request thread is taken for a new request
Accept(t) ==
    /\ pc[t] = "idle"
    /\ started < MaxRequests
    /\ started' = started + 1

Finish(t, response) ==
    /\ pc' = [pc EXCEPT ![t] = "done"]
    /\ resp' = [resp EXCEPT ![t] = response]

Goto(t, label) ==
    /\ pc' = [pc EXCEPT ![t] = label]
    /\ UNCHANGED resp

----------------------------------------------------------------------------
(* /calibrate and calibrate_system *)

\* cap.read(): ret and, when ret, the frame
CameraReads == { [ret |-> TRUE, frame |-> f] : f \in Frames }
                   \cup { [ret |-> FALSE, frame |-> NoFrame] }

calibrate(t) ==
    /\ Accept(t)
    /\ \E cam \in CameraReads :
        /\ req' = [req EXCEPT ![t] =
                     [NoReq EXCEPT !.kind = "calibrate", !.ret = cam.ret,
                                   !.frame = cam.frame, !.pre = Snapshot]]
        /\ IF cam.ret
           THEN Goto(t, "calibrate_system")
           ELSE Finish(t, Json(FALSE, None))
    /\ UNCHANGED << session, files, clock, saved, failed >>

\* mutant: a zero width yields a zero ratio instead of ZeroDivisionError
calibrate_system_zero(t) ==
    /\ pc[t] = "calibrate_system"
    /\ pixel_to_cm_ratio' =
         IF req[t].frame.w = 0 THEN ZeroRatio
         ELSE Fraction(AverageFaceWidthTenths * FaceFraction,
                       10 * req[t].frame.w)
    /\ Goto(t, "calibrate_system_flag")
    /\ UNCHANGED << calibrated, current_measurements, measurements_data,
                    files, clock, req, started, saved, failed >>

\* face_width_pixels = w / 8; self.pixel_to_cm_ratio = 15.5 / face_width_pixels
calibrate_system(t) ==
    /\ pc[t] = "calibrate_system"
    /\ IF req[t].frame.w = 0
       THEN \* 15.5 / 0.0 raises ZeroDivisionError; nothing catches it
            /\ Finish(t, Raised)
            /\ UNCHANGED pixel_to_cm_ratio
       ELSE /\ pixel_to_cm_ratio' =
                 Fraction(AverageFaceWidthTenths * FaceFraction,
                          10 * req[t].frame.w)
            /\ Goto(t, "calibrate_system_flag")
    /\ UNCHANGED << calibrated, current_measurements, measurements_data,
                    files, clock, req, started, saved, failed >>

\* self.calibrated = True; return True, to the route or to process_frame
calibrate_system_flag(t) ==
    /\ pc[t] = "calibrate_system_flag"
    /\ calibrated' = TRUE
    /\ IF req[t].kind = "calibrate"
       THEN Finish(t, Json(TRUE, None))
       ELSE Goto(t, "detect")
    /\ UNCHANGED << pixel_to_cm_ratio, current_measurements,
                    measurements_data, files, clock, req, started,
                    saved, failed >>

----------------------------------------------------------------------------
(* /measure and process_frame *)

measure(t) ==
    /\ Accept(t)
    /\ \E cam \in CameraReads :
        /\ req' = [req EXCEPT ![t] =
                     [NoReq EXCEPT !.kind = "measure", !.ret = cam.ret,
                                   !.frame = cam.frame, !.pre = Snapshot]]
        /\ IF cam.ret
           THEN Goto(t, "process_frame")
           ELSE Finish(t, Json(FALSE, None))
    /\ UNCHANGED << session, files, clock, saved, failed >>

\* mutant: process_frame without the calibration on demand
process_frame_uncalibrated(t) ==
    /\ pc[t] = "process_frame"
    /\ Goto(t, "detect")
    /\ UNCHANGED << session, files, clock, req, started, saved, failed >>

\* if not self.calibrated: self.calibrate_system(frame)
process_frame(t) ==
    /\ pc[t] = "process_frame"
    /\ IF ~calibrated
       THEN Goto(t, "calibrate_system")
       ELSE Goto(t, "detect")
    /\ UNCHANGED << session, files, clock, req, started, saved, failed >>

\* results.pose_landmarks: None, or the landmarks of a body
Detections == {None} \cup { Some(p) : p \in Poses }

\* cv2.cvtColor(frame, ...); results = self.pose.process(rgb_frame)
detect(t) ==
    /\ pc[t] = "detect"
    /\ IF req[t].frame.w = 0
       THEN \* cv2.cvtColor raises on an empty image
            /\ Finish(t, Raised)
            /\ UNCHANGED req
       ELSE \E found \in Detections :
              IF found.some
              THEN /\ req' = [req EXCEPT ![t].landmarks = found]
                   /\ Goto(t, "extract")
              ELSE /\ Finish(t, Json(FALSE, None))
                   /\ UNCHANGED req
    /\ UNCHANGED << session, files, clock, started, saved, failed >>

\* measurements = self.extract_measurements(results.pose_landmarks, frame.shape)
\* (one step: the ratio is read as it stands when the call is made)
extract(t) ==
    /\ pc[t] = "extract"
    /\ req' = [req EXCEPT ![t].measurements =
                 extract_measurements(req[t].landmarks.val, req[t].frame,
                                      pixel_to_cm_ratio)]
    /\ Goto(t, "store")
    /\ UNCHANGED << session, files, clock, started, saved, failed >>

\* self.current_measurements = measurements; return True, measurements;
\* the route: if success and measurements: ... else {'success': False}
store(t) ==
    /\ pc[t] = "store"
    /\ current_measurements' = req[t].measurements
    /\ Finish(t, IF Truthy(req[t].measurements)
                 THEN Json(TRUE, req[t].measurements)
                 ELSE Json(FALSE, None))
    /\ UNCHANGED << pixel_to_cm_ratio, calibrated, measurements_data, files,
                    clock, req, started, saved, failed >>

----------------------------------------------------------------------------
(* /save and save_measurements *)

\* the page's saveMeasurements():
\*   const username = document.getElementById('username').value || 'Guest'
saveMeasurements_username(typed) == IF typed = "" THEN "Guest" ELSE typed

\* POST /save: from the page's script, or from any other client, which
\* sends the name as it is
save(t) ==
    /\ Accept(t)
    /\ \E via \in {"page", "direct"}, typed \in UserNames,
          payload \in SavePayloads :
        req' = [req EXCEPT ![t] =
                  [NoReq EXCEPT !.kind = "save",
                                !.user = IF via = "page"
                                         THEN saveMeasurements_username(typed)
                                         ELSE typed,
                                !.payload = payload, !.pre = Snapshot]]
    /\ Goto(t, "save_measurements")
    /\ UNCHANGED << session, files, clock, saved, failed >>

\* timestamp = datetime.now().strftime("%Y-%m-%d %H:%M:%S")
save_measurements(t) ==
    /\ pc[t] = "save_measurements"
    /\ req' = [req EXCEPT ![t].timestamp = clock]
    /\ Goto(t, "save_lookup")
    /\ UNCHANGED << session, files, clock, started, saved, failed >>

\* if user_name not in self.measurements_data:
save_lookup(t) ==
    /\ pc[t] = "save_lookup"
    /\ IF req[t].user \notin DOMAIN measurements_data
       THEN Goto(t, "save_create")
       ELSE Goto(t, "save_append")
    /\ UNCHANGED << session, files, clock, req, started, saved, failed >>

\* self.measurements_data[user_name] = []
save_create(t) ==
    /\ pc[t] = "save_create"
    /\ measurements_data' =
         [u \in DOMAIN measurements_data \cup {req[t].user} |->
            IF u = req[t].user THEN << >> ELSE measurements_data[u]]
    /\ Goto(t, "save_append")
    /\ UNCHANGED << pixel_to_cm_ratio, calibrated, current_measurements,
                    files, clock, req, started, saved, failed >>

measurement_record(t) ==
    [timestamp |-> req[t].timestamp, measurements |-> req[t].payload]

\* mutant: the new record goes to the front of the list
save_prepend(t) ==
    /\ pc[t] = "save_append"
    /\ measurements_data' =
         [measurements_data EXCEPT
            ![req[t].user] = << measurement_record(t) >> \o @]
    /\ Goto(t, "save_open")
    /\ UNCHANGED << pixel_to_cm_ratio, calibrated, current_measurements,
                    files, clock, req, started, saved, failed >>

\* self.measurements_data[user_name].append(measurement_record)
save_append(t) ==
    /\ pc[t] = "save_append"
    /\ measurements_data' =
         [measurements_data EXCEPT
            ![req[t].user] = Append(@, measurement_record(t))]
    /\ Goto(t, "save_open")
    /\ UNCHANGED << pixel_to_cm_ratio, calibrated, current_measurements,
                    files, clock, req, started, saved, failed >>

WriteFile(user, content) ==
    files' = [u \in DOMAIN files \cup {user} |->
                IF u = user THEN content ELSE files[u]]

\* open(filename, 'w'): the file is created or cut to length 0, or open raises
save_open(t) ==
    /\ pc[t] = "save_open"
    /\ \E ok \in BOOLEAN :
         IF ok
         THEN /\ WriteFile(req[t].user, FileOf(<< >>, FALSE))
              /\ Goto(t, "save_dump")
              /\ UNCHANGED failed
         ELSE /\ Finish(t, Raised)
              /\ failed' = failed \cup {req[t].user}
              /\ UNCHANGED files
    /\ UNCHANGED << session, clock, req, started, saved >>

\* a writer's text laid from offset 0 over what the file holds: what lies
\* beyond the new text stays, and the file is no longer one JSON value
Overlay(old, new, whole) ==
    IF Len(new) >= Len(old)
    THEN FileOf(new, whole)
    ELSE FileOf(new \o SubSeq(old, Len(new) + 1, Len(old)), FALSE)

\* json.dump(self.measurements_data[user_name], f, indent=4) and the close
\* of the with block; a write that raises leaves the records already written
save_dump(t) ==
    /\ pc[t] = "save_dump"
    /\ LET user == req[t].user
           history == measurements_data[user]
       IN  \E written \in 0..Len(history) :
             /\ WriteFile(user, Overlay(files[user].data,
                                        SubSeq(history, 1, written),
                                        written = Len(history)))
             /\ IF written = Len(history)
                THEN /\ Finish(t, Json(TRUE, None))
                     /\ saved' = [saved EXCEPT
                                    ![user] = Append(@, req[t].payload)]
                     /\ UNCHANGED failed
                ELSE /\ Finish(t, Raised)
                     /\ failed' = failed \cup {user}
                     /\ UNCHANGED saved
    /\ UNCHANGED << session, clock, req, started >>

----------------------------------------------------------------------------
(* The environment and the specifications *)

\* the response is sent and the thread ends
respond(t) ==
    /\ pc[t] = "done"
    /\ pc' = [pc EXCEPT ![t] = "idle"]
    /\ req' = [req EXCEPT ![t] = NoReq]
    /\ resp' = [resp EXCEPT ![t] = NoResp]
    /\ UNCHANGED << session, files, clock, started, saved, failed >>

\* the wall clock advances; it does not go back
Tick ==
    /\ clock < MaxClock
    /\ clock' = clock + 1
    /\ UNCHANGED << session, files, pc, req, resp, started, saved, failed >>

SessionStep(t) ==
    \/ calibrate(t)
    \/ calibrate_system(t)
    \/ calibrate_system_flag(t)
    \/ measure(t)
    \/ process_frame(t)
    \/ detect(t)
    \/ extract(t)
    \/ store(t)

StoreStep(t) ==
    \/ save(t)
    \/ save_measurements(t)
    \/ save_lookup(t)
    \/ save_create(t)
    \/ save_append(t)
    \/ save_open(t)
    \/ save_dump(t)

\* every request on its own thread, as app.run() serves them
Next == (\E t \in Threads : SessionStep(t) \/ StoreStep(t) \/ respond(t))
           \/ Tick

Spec == Init /\ [][Next]_vars

\* requests served one after the other
NextSeq == SessionStep("t1") \/ StoreStep("t1") \/ respond("t1") \/ Tick

SpecSeq == Init /\ [][NextSeq]_vars

\* concurrent /calibrate and /measure requests: they read and write
\* pixel_to_cm_ratio, calibrated and current_measurements only, which
\* save_measurements never touches
NextSession == \E t \in Threads : SessionStep(t) \/ respond(t)

SpecSession == Init /\ [][NextSession]_vars

\* concurrent /save requests: they read and write measurements_data, the
\* files and the clock only
NextStore == (\E t \in Threads : StoreStep(t) \/ respond(t)) \/ Tick

SpecStore == Init /\ [][NextStore]_vars

----------------------------------------------------------------------------
(* Properties *)

Done(t) == pc[t] = "done"

Negative == Json(FALSE, None)

IsPrefix(s, t) == Len(s) <= Len(t) /\ SubSeq(t, 1, Len(s)) = s

Positive(ratio) == ratio[1] > 0 /\ ratio[2] > 0

\* a measurement result is None or has all six names
Whole(opt) == opt.some => DOMAIN opt.val = MeasurementNames

\* no request is between its first step and its response
Quiet == \A t \in Threads : pc[t] \in {"idle", "done"}

\* C1, as claimed: a measurement requested in a session with
\* calibrated = false gets a negative result and leaves calibrated false.
C1_MeasureBeforeCalibrationFails ==
    \A t \in Threads :
        (Done(t) /\ req[t].kind = "measure" /\ ~req[t].pre.calibrated)
            => (resp[t] = Negative /\ ~calibrated)

\* C1, amended: a measurement requested with a frame in a session with
\* calibrated = false calibrates before it detects: when it reaches the
\* detector, extract_measurements or the store, calibrated is true and the
\* ratio is not 0 (the branch of line 73 is not taken); when it returns a
\* response, calibrated is true and the ratio is positive; it ends in an
\* uncaught error only on a frame of width 0; without a frame the result is
\* negative.
C1_MeasureCalibratesFirst ==
    \A t \in Threads :
        (req[t].kind = "measure" /\ ~req[t].pre.calibrated) =>
            /\ pc[t] \in {"detect", "extract", "store"}
                  => (calibrated /\ pixel_to_cm_ratio # ZeroRatio)
            /\ (Done(t) /\ req[t].ret /\ resp[t].status = "json")
                  => (calibrated /\ Positive(pixel_to_cm_ratio))
            /\ (Done(t) /\ resp[t].status = "raised") => req[t].frame.w = 0
            /\ (Done(t) /\ ~req[t].ret) => resp[t] = Negative

C1_Witness ==
    \E t \in Threads :
        /\ Done(t) /\ req[t].kind = "measure" /\ ~req[t].pre.calibrated
        /\ resp[t].success /\ calibrated

\* C2: a measurement request that fails leaves the session as it found it;
\* stated for the case the claim singles out, a calibrated session that
\* holds a current measurement from an earlier request.
C2_FailedMeasureLeavesState ==
    \A t \in Threads :
        (/\ Done(t) /\ req[t].kind = "measure" /\ resp[t] = Negative
         /\ req[t].pre.calibrated /\ req[t].pre.current.some)
            => Snapshot = req[t].pre

\* C3: with saves one after the other and none of a user's saves failed,
\* after each call the user's file holds exactly the sets saved under that
\* name, in call order, with non-decreasing timestamps, and equals the
\* in-memory history; a user nothing was saved for has no file.
C3_SaveRoundTrip ==
    Quiet =>
      \A u \in UserNames \ failed :
        IF saved[u] = << >>
        THEN u \notin DOMAIN files /\ u \notin DOMAIN measurements_data
        ELSE /\ u \in DOMAIN files /\ u \in DOMAIN measurements_data
             /\ files[u] = FileOf(measurements_data[u], TRUE)
             /\ [i \in 1..Len(files[u].data) |->
                   files[u].data[i].measurements] = saved[u]
             /\ \A i, j \in 1..Len(files[u].data) :
                   i <= j => files[u].data[i].timestamp
                                <= files[u].data[j].timestamp

C3_Witness ==
    /\ Quiet
    /\ failed = {}
    /\ Len(saved["Guest"]) = 2
    /\ saved["Guest"][1] # saved["Guest"][2]
    /\ files["Guest"].data[1].timestamp < files["Guest"].data[2].timestamp

\* C4: a save request that carries the empty name is stored under "Guest",
\* and nothing is keyed by the empty name.
C4_EmptyNameSavedAsGuest ==
    \A t \in Threads :
        (Done(t) /\ req[t].kind = "save" /\ req[t].user = ""
                 /\ resp[t].success) =>
            /\ "" \notin DOMAIN measurements_data
            /\ "" \notin DOMAIN files
            /\ "Guest" \in DOMAIN files
            /\ \E i \in 1..Len(files["Guest"].data) :
                  files["Guest"].data[i].measurements = req[t].payload

\* C5: calibration on a frame of width <= 0 gets a negative result and
\* leaves scale_factor and calibrated as they were.
C5_ZeroWidthCalibrationRejected ==
    \A t \in Threads :
        (Done(t) /\ req[t].kind = "calibrate" /\ req[t].ret
                 /\ req[t].frame.w <= 0) =>
            /\ resp[t] = Negative
            /\ pixel_to_cm_ratio = req[t].pre.ratio
            /\ calibrated = req[t].pre.calibrated

\* C6: a save whose write fails keeps the user's earlier records in order
\* and is reported as a negative result.
C6_FailedSaveReported ==
    \A t \in Threads :
        (Done(t) /\ req[t].kind = "save" /\ ~resp[t].success) =>
            /\ resp[t] = Negative
            /\ req[t].user \in DOMAIN req[t].pre.data =>
                  IsPrefix(req[t].pre.data[req[t].user],
                           measurements_data[req[t].user])

\* C7: once a save for a user has succeeded, the user's file is never seen
\* empty or partly written.
C7_AtomicRewrite ==
    \A u \in UserNames :
        saved[u] # << >> =>
            /\ u \in DOMAIN files
            /\ files[u].complete
            /\ files[u].data # << >>

\* C8: calibrated = true implies scale_factor > 0, and extract_measurements
\* runs only while calibrated = true, in every interleaving of calibrate and
\* measure requests over frames of any width.
C8_CalibratedImpliesScale ==
    /\ calibrated => Positive(pixel_to_cm_ratio)
    /\ \A t \in Threads : pc[t] = "extract" => calibrated

C8_Witness ==
    \E t, o \in Threads :
        /\ pc[t] = "extract" /\ ~req[t].pre.calibrated
        /\ Done(o) /\ req[o].kind = "calibrate" /\ req[o].frame.w = 0
        /\ resp[o] = Raised

\* C9: every result of extract_measurements, the current measurement and
\* every measurement response holds all six names or none, and a response
\* carries measurements exactly when its success flag is true.
C9_AllOrNothing ==
    /\ Whole(current_measurements)
    /\ \A t \in Threads :
        /\ Whole(req[t].measurements)
        /\ (req[t].kind = "measure" /\ resp[t].status = "json") =>
              /\ Whole(resp[t].measurements)
              /\ resp[t].measurements.some <=> resp[t].success

C9_Witness ==
    \E t \in Threads :
        /\ Done(t) /\ req[t].kind = "measure"
        /\ req[t].landmarks = Some(PoseNoRightHip)
        /\ req[t].measurements = None
        /\ resp[t] = Negative

\* C10: a user's in-memory history only grows: every step keeps each
\* history as a prefix of what it becomes, also with saves interleaved.
C10_HistoryOnlyGrows ==
    [][ \A u \in DOMAIN measurements_data :
           /\ u \in DOMAIN measurements_data'
           /\ IsPrefix(measurements_data[u], measurements_data'[u]) ]_vars

====
